---- MODULE Spec2Model ----
(***************************************************************************)
(* Model of the tree-to-string search manager                              *)
(* (moses/Syntax/T2S/Manager-inl.h): recombination of scored hyperedges    *)
(* into a node's stack.                                                    *)
(***************************************************************************)
EXTENDS Integers, Sequences, FiniteSets, TLC

(* ------------------------------ bounds --------------------------------- *)
MaxBuf == 3       \* longest hyperedge buffer handed to RecombineAndSort
MaxScore == 3     \* hyperedge scores are drawn from 1..MaxScore
MaxState == 2     \* recombination state keys are drawn from 1..MaxState
MaxNodes == 3     \* largest input tree
MaxPopLimit == 2  \* popLimit ranges over 0..MaxPopLimit
MaxRuleLimit == 2 \* ruleLimit ranges over 0..MaxRuleLimit
MaxStackLimit == 2   \* stackLimit ranges over 0..MaxStackLimit
MaxTranslations == 2 \* most rule alternatives of one bundle
MaxK == 2         \* k ranges over 0..MaxK
MaxNBestFactor == 2  \* nBestFactor ranges over 0..MaxNBestFactor
MaxDerivations == 4  \* most derivations the root stack can yield
MaxPhrase == 2    \* surface strings are drawn from 1..MaxPhrase
MaxRuleLen == 2   \* most symbols on either side of a derivation's top rule
MaxSubs == 2      \* most sub-derivations supplied with a rule

NULL == 0

VARIABLES
  rbuf,     \* RecombineAndSort: the buffer argument (hyperedge i = rbuf[i])
  rst,      \* RecombineAndSort: heads, bests, recombined lists, map, releases
  ri,       \* RecombineAndSort: position of the step-1 iterator p
  rstack,   \* RecombineAndSort: the stack argument
  rpc,      \* RecombineAndSort: program position
  inputTree,    \* m_inputTree.nodes: node n's children, nodes in post-order
  popLimit,     \* staticData.GetCubePruningPopLimit()
  ruleLimit,    \* staticData.GetRuleLimit()
  stackLimit,   \* staticData.GetMaxHypoStackSize()
  stackMap,     \* m_stackMap: node -> SVertexStack
  glueRuleTrie, \* nodes whose glue rule is in m_glueRuleTrie
  container,    \* callback.GetContainer(): the retained bundles
  buffer,       \* Decode's buffer of popped hyperedges
  p,            \* Decode's node iterator
  pc,           \* Decode's program position
  finalized,    \* history: nodes whose stack has been written for good
  bestEdge,     \* what GetBestSHyperedge returned
  k,            \* ExtractKBest: the requested count
  onlyDistinct, \* ExtractKBest: collapse repeated translations
  nBestFactor,  \* staticData.GetNBestFactor()
  sourceSize,   \* m_source.GetSize()
  derivations,  \* the ranked derivations the root stack can yield
  bigList,      \* ExtractKBest: the over-generated list
  distinct,     \* ExtractKBest: translations seen so far
  kBestList,    \* ExtractKBest: the result
  kp,           \* ExtractKBest: position of the copy loop's iterator
  kpc,          \* ExtractKBest: program position
  derivation,   \* OutputNBestList: the derivation being written
  retAlign,     \* OutputAlignmentNBest: the alignment set passed in
  includeWordAlignment,  \* staticData.PrintAlignmentInfoInNbest()
  alignResult,  \* OutputAlignmentNBest: how the call ended
  written,      \* OutputNBestList: collector->Write has been called
  apc           \* OutputNBestList / OutputAlignmentNBest: program position

recVars == <<rbuf, rst, ri, rstack, rpc>>
decVars == <<inputTree, popLimit, ruleLimit, stackLimit, stackMap, glueRuleTrie,
             container, buffer, p, pc, finalized, bestEdge>>
kbVars == <<k, onlyDistinct, nBestFactor, sourceSize, derivations, bigList,
            distinct, kBestList, kp, kpc>>
alVars == <<derivation, retAlign, includeWordAlignment, alignResult, written, apc>>
vars == <<recVars, decVars, kbVars, alVars>>

(* ----------------------- hyperedges and vertices ----------------------- *)
\* A scored hyperedge as it leaves the cube queue: its score and the
\* recombination state of its freshly created head vertex.
Hyperedges == [score : 1..MaxScore, state : 1..MaxState]

RECURSIVE SeqsUpTo(_, _)
SeqsUpTo(S, n) ==
  IF n = 0 THEN {<<>>}
  ELSE LET shorter == SeqsUpTo(S, n - 1)
       IN shorter \cup {Append(s, x) : s \in {t \in shorter : Len(t) = n - 1}, x \in S}

\* Hyperedge i of a buffer arrives with its own head vertex, also numbered i:
\* v->best == h and v->recombined.empty() (the assertions of step 1).
FreshHeads(buf) ==
  [head       |-> [h \in 1..Len(buf) |-> h],
   best       |-> [v \in 1..Len(buf) |-> v],
   recombined |-> [v \in 1..Len(buf) |-> <<>>],
   map        |-> {},
   released   |-> [v \in 1..Len(buf) |-> 0]]

\* The recombination orderer: a strict weak order on the vertices' state values.
SVertexRecombinationOrderer(buf, x, y) == buf[x].state < buf[y].state

Equivalent(buf, x, y) ==
  /\ ~SVertexRecombinationOrderer(buf, x, y)
  /\ ~SVertexRecombinationOrderer(buf, y, x)

\* map.insert(Map::value_type(v, v)): the stored vertices equivalent to v
\* (none: the insertion takes place).
MapFind(buf, st, v) == {w \in st.map : Equivalent(buf, w, v)}

(* --------------------------- RecombineAndSort -------------------------- *)
\* Step 1 with the score comparison reversed (the worse hyperedge wins).
RecombineStepWorseWins(buf, st, h) ==
  LET v == st.head[h]
      found == MapFind(buf, st, v)
  IN IF found = {} THEN [st EXCEPT !.map = @ \cup {v}]
     ELSE LET storedVertex == CHOOSE w \in found : TRUE
              s1 == IF buf[h].score < buf[st.best[storedVertex]].score
                    THEN [st EXCEPT !.recombined[storedVertex] =
                                       Append(@, st.best[storedVertex]),
                                    !.best[storedVertex] = h]
                    ELSE [st EXCEPT !.recombined[storedVertex] = Append(@, h)]
              s2 == [s1 EXCEPT !.best[s1.head[h]] = NULL]
              s3 == [s2 EXCEPT !.released[s2.head[h]] = @ + 1]
          IN [s3 EXCEPT !.head[h] = storedVertex]

\* Step 1 deleting the duplicate vertex without redirecting h->head.
RecombineStepDanglingHead(buf, st, h) ==
  LET v == st.head[h]
      found == MapFind(buf, st, v)
  IN IF found = {} THEN [st EXCEPT !.map = @ \cup {v}]
     ELSE LET storedVertex == CHOOSE w \in found : TRUE
              s1 == IF buf[h].score > buf[st.best[storedVertex]].score
                    THEN [st EXCEPT !.recombined[storedVertex] =
                                       Append(@, st.best[storedVertex]),
                                    !.best[storedVertex] = h]
                    ELSE [st EXCEPT !.recombined[storedVertex] = Append(@, h)]
              s2 == [s1 EXCEPT !.best[s1.head[h]] = NULL]
          IN [s2 EXCEPT !.released[s2.head[h]] = @ + 1]

\* Step 1 never displacing the stored best (the first arrival stays best).
RecombineStepKeepFirst(buf, st, h) ==
  LET v == st.head[h]
      found == MapFind(buf, st, v)
  IN IF found = {} THEN [st EXCEPT !.map = @ \cup {v}]
     ELSE LET storedVertex == CHOOSE w \in found : TRUE
              s1 == [st EXCEPT !.recombined[storedVertex] = Append(@, h)]
              s2 == [s1 EXCEPT !.best[s1.head[h]] = NULL]
              s3 == [s2 EXCEPT !.released[s2.head[h]] = @ + 1]
          IN [s3 EXCEPT !.head[h] = storedVertex]

\* Step 1 overwriting the stored best without keeping the displaced hyperedge.
RecombineStepDropsDisplaced(buf, st, h) ==
  LET v == st.head[h]
      found == MapFind(buf, st, v)
  IN IF found = {} THEN [st EXCEPT !.map = @ \cup {v}]
     ELSE LET storedVertex == CHOOSE w \in found : TRUE
              s1 == IF buf[h].score > buf[st.best[storedVertex]].score
                    THEN [st EXCEPT !.best[storedVertex] = h]
                    ELSE [st EXCEPT !.recombined[storedVertex] = Append(@, h)]
              s2 == [s1 EXCEPT !.best[s1.head[h]] = NULL]
              s3 == [s2 EXCEPT !.released[s2.head[h]] = @ + 1]
          IN [s3 EXCEPT !.head[h] = storedVertex]

\* One iteration of the step-1 loop for hyperedge h (lines 250-271).
RecombineStep(buf, st, h) ==
  LET v == st.head[h]
      found == MapFind(buf, st, v)
  IN IF found = {}
     THEN \* v's recombination value hasn't been seen before.
          [st EXCEPT !.map = @ \cup {v}]
     ELSE LET storedVertex == CHOOSE w \in found : TRUE
              s1 == IF buf[h].score > buf[st.best[storedVertex]].score
                    THEN \* h's score is better.
                         [st EXCEPT !.recombined[storedVertex] =
                                       Append(@, st.best[storedVertex]),
                                    !.best[storedVertex] = h]
                    ELSE [st EXCEPT !.recombined[storedVertex] = Append(@, h)]
              \* h->head->best = 0; delete h->head; h->head = storedVertex;
              s2 == [s1 EXCEPT !.best[s1.head[h]] = NULL]
              s3 == [s2 EXCEPT !.released[s2.head[h]] = @ + 1]
          IN [s3 EXCEPT !.head[h] = storedVertex]

\* The step-1 loop over the hyperedges in the given order.
RECURSIVE RecombineLoop(_, _, _)
RecombineLoop(buf, st, order) ==
  IF order = <<>> THEN st
  ELSE RecombineLoop(buf, RecombineStep(buf, st, Head(order)), Tail(order))

BufferOrder(buf) == [i \in 1..Len(buf) |-> i]

Perms(S) ==
  {f \in [1..Cardinality(S) -> S] :
     \A i, j \in 1..Cardinality(S) : i # j => f[i] # f[j]}

\* The stack orderer: x before y when x's best hyperedge scores higher.
SVertexStackContentOrderer(buf, st, x, y) ==
  buf[st.best[x]].score > buf[st.best[y]].score

\* Steps 2 and 3: the map's vertices copied to the stack and sorted.  std::sort
\* is not stable: every arrangement with no later vertex ordered before an
\* earlier one is a possible outcome.
SortedStacks(buf, st) ==
  {s \in Perms(st.map) :
     \A i, j \in 1..Len(s) :
        i < j => ~SVertexStackContentOrderer(buf, st, s[j], s[i])}

(* ----------------- RecombineAndSort, one step at a time ---------------- *)
DecIdle ==
  /\ inputTree = <<{}>>
  /\ popLimit = 0
  /\ ruleLimit = 0
  /\ stackLimit = 0
  /\ stackMap = <<>>
  /\ glueRuleTrie = {}
  /\ container = {}
  /\ buffer = <<>>
  /\ p = 1
  /\ pc = "idle"
  /\ finalized = {}
  /\ bestEdge = <<>>

KBestIdle ==
  /\ k = 0
  /\ onlyDistinct = FALSE
  /\ nBestFactor = 0
  /\ sourceSize = 0
  /\ derivations = <<>>
  /\ bigList = <<>>
  /\ distinct = {}
  /\ kBestList = <<>>
  /\ kp = 1
  /\ kpc = "idle"

NotCalled == [thrown |-> FALSE, collided |-> FALSE, size |-> 0, align |-> {}]

AlignIdle ==
  /\ derivation = <<>>
  /\ retAlign = {}
  /\ includeWordAlignment = FALSE
  /\ alignResult = NotCalled
  /\ written = FALSE
  /\ apc = "idle"

RecInit ==
  /\ DecIdle
  /\ KBestIdle
  /\ AlignIdle
  /\ rbuf \in SeqsUpTo(Hyperedges, MaxBuf)
  /\ rst = FreshHeads(rbuf)
  /\ ri = 1
  /\ rstack = <<>>
  /\ rpc = "step1"

\* for (p = buffer.begin(); p != buffer.end(); ++p) { ... }
RecStep1 ==
  /\ rpc = "step1"
  /\ ri <= Len(rbuf)
  /\ rst' = RecombineStep(rbuf, rst, ri)
  /\ ri' = ri + 1
  /\ UNCHANGED <<rbuf, rstack, rpc, decVars, kbVars, alVars>>

\* stack.clear(); copy the map; std::sort.
RecStep23 ==
  /\ rpc = "step1"
  /\ ri > Len(rbuf)
  /\ rstack' \in SortedStacks(rbuf, rst)
  /\ rpc' = "done"
  /\ UNCHANGED <<rbuf, rst, ri, decVars, kbVars, alVars>>

RecNext == RecStep1 \/ RecStep23

SpecRecombine == RecInit /\ [][RecNext]_vars

(* ------------------- claims about RecombineAndSort --------------------- *)
\* What a stack shows of the vertices it holds: each one's state value and
\* best hyperedge, in stack order.
StackView(buf, st, stack) ==
  [i \in 1..Len(stack) |-> <<buf[stack[i]].state, st.best[stack[i]]>>]

DistinctScores(buf) ==
  \A g, h \in 1..Len(buf) : g # h => buf[g].score # buf[h].score

\* C1: after RecombineAndSort returns, no two stack vertices are equivalent
\* under the recombination orderer, and each stack vertex's best is a
\* hyperedge of its class scoring at least as high as every buffer hyperedge
\* merged into the vertex.
C1_OnePerClassBestIsMax ==
  rpc = "done" =>
    /\ \A i, j \in 1..Len(rstack) :
          i # j => ~Equivalent(rbuf, rstack[i], rstack[j])
    /\ \A i \in 1..Len(rstack) :
          LET v == rstack[i]
          IN /\ rst.best[v] # NULL
             /\ Equivalent(rbuf, rst.best[v], v)
             /\ \A h \in 1..Len(rbuf) :
                   Equivalent(rbuf, h, v) =>
                      rbuf[rst.best[v]].score >= rbuf[h].score

\* A later, better hyperedge displaced the stored best of a class of three.
C1_Witness ==
  /\ rpc = "done"
  /\ \E i \in 1..Len(rstack) :
        /\ rst.best[rstack[i]] # rstack[i]
        /\ Len(rst.recombined[rstack[i]]) >= 2

\* C2: every head vertex that is not its class's surviving vertex is released
\* exactly once and nothing refers to it afterwards (no hyperedge head, no map
\* entry, no stack entry); every processed hyperedge's head is the surviving
\* vertex of its class; every surviving vertex is never released and is held
\* by exactly one stack entry.
C2_SingleRelease ==
  /\ \A v \in 1..Len(rbuf) :
        /\ rst.released[v] <= 1
        /\ rst.released[v] = 1 =>
              /\ v \notin rst.map
              /\ \A h \in 1..Len(rbuf) : rst.head[h] # v
              /\ \A i \in 1..Len(rstack) : rstack[i] # v
  /\ \A h \in 1..(ri - 1) :
        /\ rst.head[h] \in rst.map
        /\ Equivalent(rbuf, h, rst.head[h])
        /\ rst.released[h] = (IF rst.head[h] = h THEN 0 ELSE 1)
  /\ rpc = "done" =>
        /\ \A i \in 1..Len(rstack) : rstack[i] \in rst.map
        /\ \A v \in rst.map :
              /\ rst.released[v] = 0
              /\ Cardinality({i \in 1..Len(rstack) : rstack[i] = v}) = 1
        /\ \A v \in (1..Len(rbuf)) \ rst.map : rst.released[v] = 1

\* Two duplicate heads of one class have been released.
C2_Witness ==
  /\ rpc = "done"
  /\ Cardinality({v \in 1..Len(rbuf) : rst.released[v] = 1}) >= 2
  /\ Len(rstack) >= 1

\* C7: with pairwise distinct scores, processing the same hyperedges in any
\* other order yields the same stack: the same classes in the same order, each
\* with the same best hyperedge.
C7_OrderIndependent ==
  (rpc = "done" /\ DistinctScores(rbuf)) =>
    \A order \in Perms(1..Len(rbuf)) :
       LET st == RecombineLoop(rbuf, FreshHeads(rbuf), order)
       IN \A s \in SortedStacks(rbuf, st) :
             StackView(rbuf, st, s) = StackView(rbuf, rst, rstack)

\* Three hyperedges with distinct scores, two of one class, the better one last.
C7_Witness ==
  /\ rpc = "done"
  /\ Len(rbuf) = 3
  /\ DistinctScores(rbuf)
  /\ Len(rstack) = 2
  /\ \E i \in 1..2 : rst.best[rstack[i]] # rstack[i]

\* Where hyperedge h is held by a stack: <<i, 0>> when it is the best of the
\* vertex at stack position i, <<i, j>> when it is entry j of that vertex's
\* recombined list.
Places(st, stack, h) ==
  {<<i, 0>> : i \in {x \in 1..Len(stack) : st.best[stack[x]] = h}}
    \cup {pl \in (1..Len(stack)) \X (1..Len(st.head)) :
            /\ pl[2] <= Len(st.recombined[stack[pl[1]]])
            /\ st.recombined[stack[pl[1]]][pl[2]] = h}

\* C11: RecombineAndSort loses and duplicates no hyperedge.  When it returns,
\* every hyperedge of the buffer is held in exactly one place of the stack
\* (the best of one vertex or one entry of one vertex's recombined list); the
\* vertex holding it is the one its head pointer designates and is equivalent
\* to the hyperedge's original head.  Whenever a better arrival replaces a
\* stored vertex's best, the displaced hyperedge is appended to the recombined
\* list of that same vertex and keeps that vertex as its head.
C11_NoLossNoDuplication ==
  [][/\ rpc' = "done" =>
          \A h \in 1..Len(rbuf') :
             /\ Cardinality(Places(rst', rstack', h)) = 1
             /\ \A pl \in Places(rst', rstack', h) :
                   /\ rstack'[pl[1]] = rst'.head[h]
                   /\ Equivalent(rbuf', rstack'[pl[1]], h)
     /\ \A v \in rst.map :
          rst'.best[v] # rst.best[v] =>
             /\ v \in rst'.map
             /\ rst'.best[v] = ri
             /\ rst'.recombined[v] = Append(rst.recombined[v], rst.best[v])
             /\ rst'.head[rst.best[v]] = v
             /\ rst'.head[ri] = v]_vars

\* A class of three: the stored best lost to a better arrival and sits in the
\* recombined list of the surviving vertex beside a hyperedge that lost on
\* arrival.
C11_Witness ==
  /\ rpc = "done"
  /\ Len(rbuf) = 3
  /\ Len(rstack) = 1
  /\ rst.best[rstack[1]] # rstack[1]
  /\ rstack[1] \in {rst.recombined[rstack[1]][j] : j \in 1..2}
  /\ \A h \in 1..3 : Cardinality(Places(rst, rstack, h)) = 1

(* ------------------------------- Decode -------------------------------- *)
\* The input trees: node i's parent par[i] comes later in the node vector and
\* subtrees are contiguous (post-order); the last node is the root.
PostOrderParents(n) ==
  {par \in [1..(n - 1) -> 2..n] :
     /\ \A i \in 1..(n - 1) : par[i] > i
     /\ \A i, j \in 1..(n - 1) : (i < j /\ j < par[i]) => par[j] <= par[i]}

InputTrees ==
  UNION {{[i \in 1..n |-> {j \in 1..(n - 1) : par[j] = i}] :
            par \in PostOrderParents(n)} : n \in 1..MaxNodes}

NumNodes == Len(inputTree)
Children(n) == inputTree[n]
IsTerminal(n) == Children(n) = {}

Min(a, b) == IF a < b THEN a ELSE b

\* new SVertex() of InitializeStacks: no best hyperedge (an absent pointer is
\* the empty sequence, a present one a one-element sequence).
NewSVertex(n) == [pvertex |-> n, state |-> NULL, best |-> <<>>, recombined |-> <<>>]

\* InitializeStacks giving every node a vertex, internal nodes too.
InitialStackAllNodes(n) == <<NewSVertex(n)>>

\* The stack InitializeStacks creates for node n (lines 74-83).
InitialStack(n) == IF IsTerminal(n) THEN <<NewSVertex(n)>> ELSE <<>>

\* The tails a rule matched at node n can have: n's children, any internal
\* one of them replaced by a tail of its own.
RECURSIVE Expand(_)
Expand(S) ==
  {S} \cup UNION {Expand((S \ {c}) \cup Children(c)) :
                     c \in {d \in S : ~IsTerminal(d)}}

CandidateBundles(n) ==
  [tail : Expand(Children(n)), translations : 1..MaxTranslations]

\* The bundle of the glue rule synthesized for node n: its children as they are.
GlueBundle(n) == [tail |-> Children(n), translations |-> 1]

\* BoundedPriorityContainer: what a stream M of bundles leaves in a container
\* of the given limit (which ones are the best is the scorer's business).
Retained(M, limit) ==
  {C \in SUBSET M : Cardinality(C) = Min(limit, Cardinality(M))}

RECURSIVE StackProduct(_)
StackProduct(T) ==
  IF T = {} THEN 1
  ELSE LET t == CHOOSE x \in T : TRUE
       IN Len(stackMap[t]) * StackProduct(T \ {t})

RECURSIVE CubeSize(_)
\* The hyperedges the cube queue can produce from the bundles B: per bundle,
\* one per rule alternative and choice of a vertex from each tail stack.
CubeSize(B) ==
  IF B = {} THEN 0
  ELSE LET b == CHOOSE x \in B : TRUE
       IN b.translations * StackProduct(b.tail) + CubeSize(B \ {b})

\* The stack as RecombineAndSort leaves it, as vertex records.
ToStack(n, buf, st, s) ==
  [i \in 1..Len(s) |->
     [pvertex    |-> n,
      state      |-> buf[s[i]].state,
      best       |-> IF st.best[s[i]] = NULL THEN <<>> ELSE <<buf[st.best[s[i]]]>>,
      recombined |-> [r \in 1..Len(st.recombined[s[i]]) |->
                        buf[st.recombined[s[i]][r]]]]]

\* RecombineAndSort(buffer, stack): the stacks it can leave.
RecombineAndSort(n, buf) ==
  LET st == RecombineLoop(buf, FreshHeads(buf), BufferOrder(buf))
  IN {ToStack(n, buf, st, s) : s \in SortedStacks(buf, st)}

\* Pruning that keeps the tail end of the stack.
PruneKeepsLast(stack, limit) ==
  IF limit > 0 /\ Len(stack) > limit
  THEN SubSeq(stack, Len(stack) - limit + 1, Len(stack))
  ELSE stack

\* if (stackLimit > 0 && stack.size() > stackLimit) stack.resize(stackLimit);
Prune(stack, limit) ==
  IF limit > 0 /\ Len(stack) > limit THEN SubSeq(stack, 1, limit) ELSE stack

\* An iterator that steps over every other node.
NextNodeSkipsOne(q) == q + 2

\* ++p of the node loop.
NextNode(q) == q + 1

RecIdle ==
  /\ rbuf = <<>>
  /\ rst = FreshHeads(<<>>)
  /\ ri = 1
  /\ rstack = <<>>
  /\ rpc = "idle"

Init ==
  /\ RecIdle
  /\ KBestIdle
  /\ AlignIdle
  /\ inputTree \in InputTrees
  /\ popLimit \in 0..MaxPopLimit
  /\ ruleLimit \in 0..MaxRuleLimit
  /\ stackLimit \in 0..MaxStackLimit
  /\ stackMap = <<>>
  /\ glueRuleTrie = {}
  /\ container = {}
  /\ buffer = <<>>
  /\ p = 1
  /\ pc = "InitializeStacks"
  /\ finalized = {}
  /\ bestEdge = <<>>

\* Lines 65-85.
InitializeStacks ==
  /\ pc = "InitializeStacks"
  /\ stackMap' = [n \in 1..NumNodes |-> InitialStack(n)]
  /\ finalized' = {n \in 1..NumNodes : IsTerminal(n)}
  /\ pc' = "InitializeRuleMatchers"
  /\ UNCHANGED <<recVars, kbVars, alVars, inputTree, popLimit, ruleLimit, stackLimit,
                 glueRuleTrie, container, buffer, p, bestEdge>>

\* Lines 37-62: the glue rule trie starts empty; then the node loop begins.
InitializeRuleMatchers ==
  /\ pc = "InitializeRuleMatchers"
  /\ glueRuleTrie' = {}
  /\ p' = 1
  /\ pc' = "visit"
  /\ UNCHANGED <<recVars, kbVars, alVars, inputTree, popLimit, ruleLimit, stackLimit, stackMap,
                 container, buffer, finalized, bestEdge>>

\* Lines 119-122: skip terminal nodes.
SkipTerminal ==
  /\ pc = "visit"
  /\ p <= NumNodes
  /\ IsTerminal(p)
  /\ p' = NextNode(p)
  /\ UNCHANGED <<recVars, kbVars, alVars, inputTree, popLimit, ruleLimit, stackLimit, stackMap,
                 glueRuleTrie, container, buffer, pc, finalized, bestEdge>>

\* Lines 128-136: the container is cleared and the rule matchers (the glue
\* rule matcher among them) report what they match at the node.
EnumerateHyperedges ==
  /\ pc = "visit"
  /\ p <= NumNodes
  /\ ~IsTerminal(p)
  /\ \E M \in SUBSET CandidateBundles(p) : container' \in Retained(M, ruleLimit)
  /\ pc' = "bundles"
  /\ UNCHANGED <<recVars, kbVars, alVars, inputTree, popLimit, ruleLimit, stackLimit, stackMap,
                 glueRuleTrie, buffer, p, finalized, bestEdge>>

\* Lines 138-150: no bundle, so a glue rule is synthesized and matched; the
\* assertion either holds, or stops the run, or is compiled out.
SynthesizeGlueRule ==
  /\ pc = "bundles"
  /\ Cardinality(container) = 0
  /\ glueRuleTrie' = glueRuleTrie \cup {p}
  /\ container' \in Retained({GlueBundle(p)}, ruleLimit)
  /\ \/ pc' = "cube"
     \/ Cardinality(container') # 1 /\ pc' = "assertion failed"
  /\ buffer' = <<>>
  /\ UNCHANGED <<recVars, kbVars, alVars, inputTree, popLimit, ruleLimit, stackLimit, stackMap,
                 p, finalized, bestEdge>>

\* Lines 140, 148-150: some rule matched.
StartCubeQueue ==
  /\ pc = "bundles"
  /\ Cardinality(container) # 0
  /\ pc' = "cube"
  /\ buffer' = <<>>
  /\ UNCHANGED <<recVars, kbVars, alVars, inputTree, popLimit, ruleLimit, stackLimit, stackMap,
                 glueRuleTrie, container, p, finalized, bestEdge>>

\* Lines 151-159: one more hyperedge popped into the buffer.
CubePop ==
  /\ pc = "cube"
  /\ Len(buffer) < popLimit
  /\ Len(buffer) < CubeSize(container)
  /\ \E h \in Hyperedges : buffer' = Append(buffer, h)
  /\ UNCHANGED <<recVars, kbVars, alVars, inputTree, popLimit, ruleLimit, stackLimit, stackMap,
                 glueRuleTrie, container, p, pc, finalized, bestEdge>>

\* Lines 161-169: recombine, sort, prune, and on to the next node.
RecombineAndPrune ==
  /\ pc = "cube"
  /\ ~(Len(buffer) < popLimit /\ Len(buffer) < CubeSize(container))
  /\ \E stack \in RecombineAndSort(p, buffer) :
        stackMap' = [stackMap EXCEPT ![p] = Prune(stack, stackLimit)]
  /\ finalized' = finalized \cup {p}
  /\ p' = NextNode(p)
  /\ pc' = "visit"
  /\ UNCHANGED <<recVars, kbVars, alVars, inputTree, popLimit, ruleLimit, stackLimit,
                 glueRuleTrie, container, buffer, bestEdge>>

\* Line 115: p == m_inputTree.nodes.end().
DecodeReturns ==
  /\ pc = "visit"
  /\ p > NumNodes
  /\ pc' = "done"
  /\ UNCHANGED <<recVars, kbVars, alVars, inputTree, popLimit, ruleLimit, stackLimit, stackMap,
                 glueRuleTrie, container, buffer, p, finalized, bestEdge>>

\* Lines 173-181.  On an empty root stack the assertion stops the run or,
\* compiled out, stack[0] is read past the end.
GetBestSHyperedge ==
  /\ pc = "done"
  /\ IF NumNodes \in DOMAIN stackMap /\ stackMap[NumNodes] # <<>>
     THEN /\ bestEdge' = stackMap[NumNodes][1].best
          /\ pc' = "returned"
     ELSE /\ bestEdge' = <<>>
          /\ pc' \in {"assertion failed", "undefined"}
  /\ UNCHANGED <<recVars, kbVars, alVars, inputTree, popLimit, ruleLimit, stackLimit, stackMap,
                 glueRuleTrie, container, buffer, p, finalized>>

Next ==
  \/ InitializeStacks
  \/ InitializeRuleMatchers
  \/ SkipTerminal
  \/ EnumerateHyperedges
  \/ SynthesizeGlueRule
  \/ StartCubeQueue
  \/ CubePop
  \/ RecombineAndPrune
  \/ DecodeReturns
  \/ GetBestSHyperedge

Spec == Init /\ [][Next]_vars

(* ------------------------- claims about Decode ------------------------- *)
InternalNodes == {n \in 1..NumNodes : ~IsTerminal(n)}

\* C3: after Decode completes, whatever popLimit, ruleLimit and stackLimit
\* are, the root's stack is in the stack map and is not empty, and neither
\* is any internal node's stack.
C3_RootStackNonEmpty ==
  pc = "done" =>
    /\ NumNodes \in DOMAIN stackMap
    /\ stackMap[NumNodes] # <<>>
    /\ \A n \in InternalNodes : stackMap[n] # <<>>

\* C4: once a glue rule has been synthesized for the node being processed and
\* the glue rule matcher run again, the container holds exactly one bundle.
C4_GlueGivesOneBundle ==
  (pc \in {"cube", "assertion failed"} /\ p \in glueRuleTrie) =>
     Cardinality(container) = 1

\* The stacks the current position has read: the tail stacks of the bundles
\* being expanded, the root's stack once GetBestSHyperedge has looked it up.
StacksRead ==
  IF pc \in {"bundles", "cube"} THEN UNION {b.tail : b \in container}
  ELSE IF pc \in {"returned", "undefined"} THEN {NumNodes}
  ELSE {}

\* C5: a stack that is read has been finalized before (a leaf's by
\* InitializeStacks, an internal node's by its recombination, sort and
\* pruning), and a finalized stack is never modified again.
C5_ChildrenBeforeParents ==
  [][/\ \A n \in finalized : n \in finalized' /\ stackMap'[n] = stackMap[n]
     /\ StacksRead' \subseteq finalized']_vars

\* A parent expands a bundle whose tail holds a processed internal node.
C5_Witness ==
  /\ pc = "cube"
  /\ buffer # <<>>
  /\ \E b \in container : \E t \in b.tail : ~IsTerminal(t) /\ stackMap[t] # <<>>

Classes(buf) == {buf[h].state : h \in 1..Len(buf)}

ClassBest(buf, c) ==
  CHOOSE m \in {buf[h].score : h \in {g \in 1..Len(buf) : buf[g].state = c}} :
     \A h \in 1..Len(buf) : buf[h].state = c => buf[h].score <= m

\* The internal node processed last (its hyperedges are still in the buffer).
LastProcessed == CHOOSE q \in InternalNodes \cap finalized :
                    \A n \in InternalNodes \cap finalized : n <= q

\* C6: a processed internal node's stack is sorted by non-increasing best
\* score and, when stackLimit > 0, no longer than stackLimit; it holds the
\* best of min(stackLimit, classes) surviving vertices (all of them when
\* stackLimit = 0), and no dropped vertex outscores a kept one.
C6_SortedAndPruned ==
  /\ \A n \in InternalNodes \cap finalized :
        /\ \A i, j \in 1..Len(stackMap[n]) :
              i < j => stackMap[n][i].best[1].score >= stackMap[n][j].best[1].score
        /\ stackLimit > 0 => Len(stackMap[n]) <= stackLimit
  /\ (pc \in {"visit", "bundles", "done", "returned", "undefined"}
        /\ InternalNodes \cap finalized # {}) =>
       LET stack == stackMap[LastProcessed]
           kept == {stack[i].state : i \in 1..Len(stack)}
           survivors == Cardinality(Classes(buffer))
       IN /\ Len(stack) = (IF stackLimit = 0 THEN survivors
                           ELSE Min(stackLimit, survivors))
          /\ Cardinality(kept) = Len(stack)
          /\ \A i \in 1..Len(stack) :
                /\ stack[i].state \in Classes(buffer)
                /\ stack[i].best # <<>>
                /\ stack[i].best[1].score = ClassBest(buffer, stack[i].state)
                /\ \A c \in Classes(buffer) \ kept :
                      ClassBest(buffer, c) <= stack[i].best[1].score

\* Two surviving vertices, stackLimit 1: the lower-scoring one was dropped.
C6_Witness ==
  /\ pc = "visit"
  /\ stackLimit = 1
  /\ InternalNodes \cap finalized # {}
  /\ Cardinality(Classes(buffer)) = 2
  /\ buffer[1].score < buffer[2].score
  /\ Len(stackMap[LastProcessed]) = 1

\* C10: from InitializeStacks on, a leaf's stack holds exactly one vertex, with
\* no best hyperedge and nothing recombined, and Decode never changes it; an
\* internal node's stack is empty until the node loop has processed the node.
C10_LeafStacks ==
  pc \notin {"idle", "InitializeStacks"} =>
    \A n \in 1..NumNodes :
       /\ IsTerminal(n) => stackMap[n] = <<NewSVertex(n)>>
       /\ IsTerminal(n) => /\ Len(stackMap[n]) = 1
                           /\ stackMap[n][1].best = <<>>
                           /\ stackMap[n][1].recombined = <<>>
       /\ (~IsTerminal(n) /\ n >= p) => stackMap[n] = <<>>

\* Decode is over: two leaves still as created, under a root with a full stack.
C10_Witness ==
  /\ pc = "done"
  /\ NumNodes = 3
  /\ IsTerminal(1) /\ IsTerminal(2)
  /\ Len(stackMap[1]) = 1
  /\ Len(stackMap[3]) = 2

(* ----------------------------- ExtractKBest ---------------------------- *)
\* The limit used when nBestFactor is 0 ('unlimited').
UnlimitedFactor == 1000

\* A derivation as ExtractKBest sees it: its score and its output phrase.
Derivations == [score : 1..MaxScore, phrase : 1..MaxPhrase]

\* What the k-best extractor can rank from the root stack: derivations in
\* non-increasing score order (none at all: the root stack is empty).
RankedLists ==
  {d \in SeqsUpTo(Derivations, MaxDerivations) :
     \A i, j \in 1..Len(d) : i < j => d[i].score >= d[j].score}

\* extractor.Extract(stack, n, list): the n best derivations, or all there are.
Extract(n) == SubSeq(derivations, 1, Min(n, Len(derivations)))

\* The limit without the special case for factor 0.
NumDerivationsNoUnlimited(kk, factor) == kk * factor

\* Line 216: how many derivations to extract in distinct mode.
NumDerivations(kk, factor) ==
  IF factor = 0 THEN kk * UnlimitedFactor ELSE kk * factor

KBestInit ==
  /\ RecIdle
  /\ DecIdle
  /\ AlignIdle
  /\ k \in 0..MaxK
  /\ onlyDistinct \in BOOLEAN
  /\ nBestFactor \in 0..MaxNBestFactor
  /\ sourceSize \in 0..1
  /\ derivations \in RankedLists
  /\ bigList = <<>>
  /\ distinct = {}
  /\ kBestList \in {<<>>, <<[score |-> 1, phrase |-> 1]>>}
  /\ kp = 1
  /\ kpc = "ExtractKBest"

\* Lines 189-192.
ExtractNothing ==
  /\ kpc = "ExtractKBest"
  /\ k = 0 \/ sourceSize = 0
  /\ kBestList' = <<>>
  /\ kpc' = "returned"
  /\ UNCHANGED <<recVars, decVars, alVars, k, onlyDistinct, nBestFactor, sourceSize,
                 derivations, bigList, distinct, kp>>

\* Lines 194-199 on an empty root stack: the assertion stops the run or,
\* compiled out, the extractor works on an empty stack.
ExtractFromEmptyStack ==
  /\ kpc = "ExtractKBest"
  /\ ~(k = 0 \/ sourceSize = 0)
  /\ derivations = <<>>
  /\ kBestList' = <<>>
  /\ kpc' \in {"assertion failed", "undefined"}
  /\ UNCHANGED <<recVars, decVars, alVars, k, onlyDistinct, nBestFactor, sourceSize,
                 derivations, bigList, distinct, kp>>

\* Lines 203-207: the k-best list as is.
ExtractAsIs ==
  /\ kpc = "ExtractKBest"
  /\ ~(k = 0 \/ sourceSize = 0)
  /\ derivations # <<>>
  /\ ~onlyDistinct
  /\ kBestList' = Extract(k)
  /\ kpc' = "returned"
  /\ UNCHANGED <<recVars, decVars, alVars, k, onlyDistinct, nBestFactor, sourceSize,
                 derivations, bigList, distinct, kp>>

\* Lines 214-225: over-generate, then start copying.
ExtractBigList ==
  /\ kpc = "ExtractKBest"
  /\ ~(k = 0 \/ sourceSize = 0)
  /\ derivations # <<>>
  /\ onlyDistinct
  /\ kBestList' = <<>>
  /\ bigList' = Extract(NumDerivations(k, nBestFactor))
  /\ distinct' = {}
  /\ kp' = 1
  /\ kpc' = "copy"
  /\ UNCHANGED <<recVars, decVars, alVars, k, onlyDistinct, nBestFactor, sourceSize,
                 derivations>>

\* Lines 226-232: one iteration of the copy loop.
CopyDistinct ==
  /\ kpc = "copy"
  /\ Len(kBestList) < k
  /\ kp <= Len(bigList)
  /\ distinct' = distinct \cup {bigList[kp].phrase}
  /\ kBestList' = IF bigList[kp].phrase \notin distinct
                  THEN Append(kBestList, bigList[kp])
                  ELSE kBestList
  /\ kp' = kp + 1
  /\ UNCHANGED <<recVars, decVars, alVars, k, onlyDistinct, nBestFactor, sourceSize,
                 derivations, bigList, kpc>>

\* Line 226: the loop condition fails.
CopyDone ==
  /\ kpc = "copy"
  /\ ~(Len(kBestList) < k /\ kp <= Len(bigList))
  /\ kpc' = "returned"
  /\ UNCHANGED <<recVars, decVars, alVars, k, onlyDistinct, nBestFactor, sourceSize,
                 derivations, bigList, distinct, kBestList, kp>>

KBestNext ==
  \/ ExtractNothing
  \/ ExtractFromEmptyStack
  \/ ExtractAsIs
  \/ ExtractBigList
  \/ CopyDistinct
  \/ CopyDone

SpecKBest == KBestInit /\ [][KBestNext]_vars

(* ---------------------- claims about ExtractKBest ---------------------- *)
\* The derivations ExtractKBest was entitled to over-generate.
OverGenerated ==
  IF sourceSize = 0 THEN <<>>
  ELSE SubSeq(derivations, 1,
              Min(k * (IF nBestFactor = 0 THEN 1000 ELSE nBestFactor),
                  Len(derivations)))

\* The positions of a list that hold the first occurrence of their phrase.
FirstOccurrences(list) ==
  {i \in 1..Len(list) : \A j \in 1..(i - 1) : list[j].phrase # list[i].phrase}

\* C8: in distinct mode with k > 0 the returned list is non-increasing in
\* score, repeats no output phrase, consists of the first occurrences of the
\* highest-ranked distinct phrases among the first k * nBestFactor derivations
\* (k * 1000 for factor 0), and has min(k, distinct phrases there) entries.
C8_DistinctKBest ==
  (kpc = "returned" /\ onlyDistinct /\ k > 0) =>
    LET first == FirstOccurrences(OverGenerated)
        wanted == {i \in first : Cardinality({j \in first : j < i}) < k}
    IN /\ \A i, j \in 1..Len(kBestList) :
             i < j => /\ kBestList[i].score >= kBestList[j].score
                      /\ kBestList[i].phrase # kBestList[j].phrase
       /\ Len(kBestList) = Min(k, Cardinality(first))
       /\ Len(kBestList) = Cardinality(wanted)
       /\ \A i \in wanted :
             kBestList[Cardinality({j \in wanted : j <= i})] = OverGenerated[i]

\* Unlimited factor: a repeated translation was skipped and k distinct ones
\* were still found.
C8_Witness ==
  /\ kpc = "returned"
  /\ onlyDistinct
  /\ nBestFactor = 0
  /\ k = 2
  /\ Len(kBestList) = 2
  /\ Len(bigList) = 4
  /\ bigList[1].phrase = bigList[2].phrase

(* ------------------------- OutputAlignmentNBest ------------------------ *)
\* Positions are counted from 1 here and from 0 in the code; absolute
\* positions (the alignment points) are the code's.
Symbols == {"T", "NT"}
NTPos(w) == {i \in 1..Len(w) : w[i] = "NT"}
TPos(w) == {i \in 1..Len(w) : w[i] = "T"}

\* A bijection between the non-terminals of the two sides.
IsBijection(a, S, T) ==
  /\ \A x \in S : Cardinality({y \in T : <<x, y>> \in a}) = 1
  /\ \A y \in T : Cardinality({x \in S : <<x, y>> \in a}) = 1

\* Translation rules of up to len symbols a side: source and target words,
\* the non-terminal alignment and the terminal alignment.
Rules(len) ==
  UNION {UNION {[src : {sw}, tgt : {tw},
                 aiNonTerm : {a \in SUBSET (NTPos(sw) \X NTPos(tw)) :
                                 IsBijection(a, NTPos(sw), NTPos(tw))},
                 aiTerm : SUBSET (TPos(sw) \X TPos(tw))] :
                  tw \in {t \in SeqsUpTo(Symbols, len) :
                            Len(t) >= 1 /\ Cardinality(NTPos(t)) = Cardinality(NTPos(sw))}} :
           sw \in {t \in SeqsUpTo(Symbols, len) : Len(t) >= 1}}

\* Derivations: a rule and the sub-derivations supplied with it, which need
\* not be as many as the rule has non-terminals.  Below the top, rules have
\* one symbol a side.
RECURSIVE DerivationTrees(_, _)
DerivationTrees(depth, len) ==
  IF depth = 0 THEN {}
  ELSE [rule : Rules(len),
        subderivations : SeqsUpTo(DerivationTrees(depth - 1, 1), MaxSubs)]

\* span.GetNumWordsCovered() of a derivation's head vertex.
RECURSIVE NumWordsCovered(_)
NumWordsCovered(d) ==
  LET RECURSIVE Sum(_)
      Sum(i) == IF i = 0 THEN 0
                ELSE NumWordsCovered(d.subderivations[i]) + Sum(i - 1)
  IN Cardinality(TPos(d.rule.src)) + Sum(Len(d.subderivations))

\* Lines 476-487.
CalcSourceSize(d) ==
  LET RECURSIVE Rest(_, _)
      Rest(ret, i) ==
        IF i > Len(d.subderivations) THEN ret
        ELSE Rest(ret - (NumWordsCovered(d.subderivations[i]) - 1), i + 1)
  IN Rest(NumWordsCovered(d), 1)

\* The elements of a set of numbers in ascending order.
Ascending(S) ==
  CHOOSE f \in [1..Cardinality(S) -> S] :
     \A i, j \in 1..Cardinality(S) : i < j => f[i] < f[j]

\* aiNonTerm.GetSourceIndex2PosMap(): the aligned source positions in order.
SourceInd2Pos(rule) == Ascending({a[1] : a \in rule.aiNonTerm})

\* aiNonTerm.GetNonTermIndexMap(): size, and source index of a target position.
NonTermIndexMapSize(rule) ==
  IF rule.aiNonTerm = {} THEN 0
  ELSE CHOOSE m \in {a[2] : a \in rule.aiNonTerm} :
          \A a \in rule.aiNonTerm : a[2] <= m

NonTermIndexMap(rule, targetPos) ==
  CHOOSE i \in 1..Len(SourceInd2Pos(rule)) :
     <<SourceInd2Pos(rule)[i], targetPos>> \in rule.aiNonTerm

\* ShiftOffsets: sizes turned into positions, a size of 0 counting as 1.
RECURSIVE ShiftOffsets(_, _)
ShiftOffsets(offsets, startPos) ==
  IF offsets = <<>> THEN <<>>
  ELSE <<startPos>> \o
       ShiftOffsets(Tail(offsets),
                    startPos + (IF Head(offsets) = 0 THEN 1 ELSE Head(offsets)))

\* span.GetStartPos() of the sub-derivation at source position sourcePos.
RECURSIVE StartPosOfChild(_, _, _)
StartPosOfChild(d, startSource, sourcePos) ==
  IF sourcePos = 1 THEN startSource
  ELSE LET before == sourcePos - 1
           nts == {i \in 1..Len(SourceInd2Pos(d.rule)) :
                     SourceInd2Pos(d.rule)[i] = before}
           width == IF nts = {} \/ (CHOOSE i \in nts : TRUE) > Len(d.subderivations)
                    THEN 1
                    ELSE NumWordsCovered(d.subderivations[CHOOSE i \in nts : TRUE])
       IN StartPosOfChild(d, startSource, before) + width

LexLess(a, b) == a[1] < b[1] \/ (a[1] = b[1] /\ a[2] < b[2])

\* Lines 459-470: the rule's terminal alignments, shifted, inserted one by one;
\* an insertion that finds its point present throws.
RECURSIVE InsertTermAlignments(_, _, _, _)
InsertTermAlignments(todo, sourceOffsets, targetOffsets, acc) ==
  IF todo = {} \/ acc.thrown THEN acc
  ELSE LET align == CHOOSE a \in todo : \A b \in todo \ {a} : LexLess(a, b)
           alignPoint == <<sourceOffsets[align[1]], targetOffsets[align[2]]>>
       IN InsertTermAlignments(todo \ {align}, sourceOffsets, targetOffsets,
            IF alignPoint \in acc.align
            THEN [acc EXCEPT !.thrown = TRUE, !.collided = TRUE]
            ELSE [acc EXCEPT !.align = @ \cup {alignPoint}])

\* The count check of line 418 catching only too few sub-derivations.
CountMismatchOnlyTooFew(d) == Len(SourceInd2Pos(d.rule)) > Len(d.subderivations)

\* Line 418: sourceInd2pos.size() != derivation.subderivations.size().
CountMismatch(d) == Len(SourceInd2Pos(d.rule)) # Len(d.subderivations)

\* Lines 395-473.  The result tells whether the call threw, whether an
\* insertion found its point present, the target size returned and the
\* alignment set as the call left it.
RECURSIVE OutputAlignmentNBest(_, _, _, _)
OutputAlignmentNBest(align0, d, startSource, startTarget) ==
  LET tp == d.rule.tgt
      thisSourceSize == CalcSourceSize(d)
      acc0 == [thrown |-> FALSE, collided |-> FALSE, size |-> 0, align |-> align0,
               sourceOffsets |-> [i \in 1..thisSourceSize |-> 0],
               targetOffsets |-> [i \in 1..Len(tp) |-> 0]]
      RECURSIVE TargetLoop(_, _)
      TargetLoop(targetPos, acc) ==
        IF acc.thrown \/ targetPos > Len(tp) THEN acc
        ELSE IF tp[targetPos] = "NT"
        THEN IF targetPos > NonTermIndexMapSize(d.rule)
             THEN [acc EXCEPT !.thrown = TRUE]
             ELSE LET sourceInd == NonTermIndexMap(d.rule, targetPos)
                      sourcePos == SourceInd2Pos(d.rule)[sourceInd]
                      subderivation == d.subderivations[sourceInd]
                      sub == OutputAlignmentNBest(acc.align, subderivation,
                               StartPosOfChild(d, startSource, sourcePos),
                               startTarget + acc.size)
                  IN IF sub.thrown
                     THEN [acc EXCEPT !.thrown = TRUE, !.collided = sub.collided,
                                      !.align = sub.align]
                     ELSE TargetLoop(targetPos + 1,
                            [acc EXCEPT !.align = sub.align,
                                        !.collided = @ \/ sub.collided,
                                        !.size = @ + sub.size,
                                        !.sourceOffsets[sourcePos] =
                                           NumWordsCovered(subderivation),
                                        !.targetOffsets[targetPos] = sub.size])
        ELSE TargetLoop(targetPos + 1, [acc EXCEPT !.size = @ + 1])
      looped == TargetLoop(1, acc0)
      done == IF CountMismatch(d) THEN [acc0 EXCEPT !.thrown = TRUE]
              ELSE IF looped.thrown THEN looped
              ELSE InsertTermAlignments(d.rule.aiTerm,
                     ShiftOffsets(looped.sourceOffsets, startSource),
                     ShiftOffsets(looped.targetOffsets, startTarget), looped)
  IN [thrown |-> done.thrown, collided |-> done.collided,
      size |-> done.size, align |-> done.align]

\* The alignment sets an invocation can be handed.
AlignmentSets == SUBSET {<<0, 0>>, <<1, 1>>}

AlignInit ==
  /\ RecIdle
  /\ DecIdle
  /\ KBestIdle
  /\ derivation \in DerivationTrees(2, MaxRuleLen)
  /\ retAlign \in AlignmentSets
  /\ includeWordAlignment \in BOOLEAN
  /\ alignResult = NotCalled
  /\ written = FALSE
  /\ apc = "start"

\* Lines 350-391 for one derivation: with word alignments wanted, a fresh
\* alignment set is filled by OutputAlignmentNBest; an exception leaves
\* OutputNBestList before anything is written to the collector.
OutputNBestList ==
  /\ apc = "start"
  /\ retAlign = {}
  /\ IF includeWordAlignment
     THEN /\ alignResult' = OutputAlignmentNBest({}, derivation, 0, 0)
          /\ written' = ~alignResult'.thrown
          /\ apc' = IF alignResult'.thrown THEN "exception" ELSE "returned"
     ELSE /\ alignResult' = NotCalled
          /\ written' = TRUE
          /\ apc' = "returned"
  /\ UNCHANGED <<recVars, decVars, kbVars, derivation, retAlign, includeWordAlignment>>

\* One invocation of OutputAlignmentNBest on an alignment set that already
\* holds points, as the recursive invocations of line 439 receive it.
InvokeOutputAlignmentNBest ==
  /\ apc = "start"
  /\ retAlign # {}
  /\ includeWordAlignment
  /\ alignResult' = OutputAlignmentNBest(retAlign, derivation, 0, 0)
  /\ apc' = IF alignResult'.thrown THEN "exception" ELSE "returned"
  /\ UNCHANGED <<recVars, decVars, kbVars, derivation, retAlign,
                 includeWordAlignment, written>>

AlignNext == OutputNBestList \/ InvokeOutputAlignmentNBest

SpecAlign == AlignInit /\ [][AlignNext]_vars

(* ------------------ claims about OutputAlignmentNBest ------------------ *)
\* Some rule of the derivation, at whatever level, has a non-terminal count
\* that differs from the number of sub-derivations supplied with it.
RECURSIVE MismatchAtAnyLevel(_)
MismatchAtAnyLevel(d) ==
  \/ Cardinality(NTPos(d.rule.src)) # Len(d.subderivations)
  \/ \E i \in 1..Len(d.subderivations) : MismatchAtAnyLevel(d.subderivations[i])

\* C9: an invocation of the alignment reconstructor in which some level's
\* non-terminal count differs from its number of sub-derivations, or in which
\* an alignment point to insert is already present, ends in an exception,
\* never a normal return, and OutputNBestList then writes nothing.
C9_HardError ==
  (apc \in {"returned", "exception"} /\ includeWordAlignment
     /\ (MismatchAtAnyLevel(derivation) \/ alignResult.collided)) =>
        /\ apc = "exception"
        /\ alignResult.thrown
        /\ ~written

\* A mismatch below the top level stopped OutputNBestList.
C9_Witness ==
  /\ apc = "exception"
  /\ retAlign = {}
  /\ Cardinality(NTPos(derivation.rule.src)) = Len(derivation.subderivations)
  /\ MismatchAtAnyLevel(derivation)

====
